---- MODULE Spec2Model ----
(***************************************************************************)
(* Attendance record lifecycle of the employee dashboard                   *)
(* (components/EmployeeDashboard, held in src/components/LoginPage.tsx     *)
(* from line 150) together with the record handlers of App                 *)
(* (src/unnamed/part_003).                                                 *)
(*                                                                         *)
(* Time.  An instant is a number of clock units since the epoch, in UTC,   *)
(* as a JavaScript Date is; UnitsPerMinute units make one minute, so that  *)
(* instants less than a minute apart exist.  The browser's time zone is    *)
(* the offset tz (in units, local = UTC + tz).  A calendar date            *)
(* 'yyyy-MM-dd' is a day number; months are MonthLen days long.  A         *)
(* datetime-local form value 'yyyy-MM-ddTHH:mm' is a number of local       *)
(* minutes.  durationHours is kept in hundredths of an hour.               *)
(***************************************************************************)
EXTENDS Integers, Sequences, FiniteSets

VARIABLES
    tz,                 \* offset of the browser's local time from UTC, in units
    now,                \* the clock: what new Date() returns
    attendanceRecords,  \* App state: the local record set (an array)
    pending,            \* supabase calls awaited by handleUpdateRecord / handleDeleteRecord
    remote,             \* rows of the attendance_records table
    calls,              \* number of supabase calls issued so far
    isEditModalOpen,    \* EmployeeDashboard state
    isCreating,         \* EmployeeDashboard state
    editingRecord,      \* EmployeeDashboard state
    selectedMonth,      \* EmployeeDashboard state
    outcome,            \* what the last step showed the employee: the alert it
                        \* raised, a button that is not rendered, or "none"
    user,               \* App state: the id of the signed-in user's profile, or null
    loading,            \* App state: the loading screen is shown
    session,            \* whether supabase.auth holds a session
    loads               \* the awaits and timers of checkSession, the auth listener,
                        \* fetchProfile and fetchAppData that have not completed

vars == <<tz, now, attendanceRecords, pending, remote, calls, isEditModalOpen, isCreating,
          editingRecord, selectedMonth, outcome, user, loading, session, loads>>

----------------------------------------------------------------------------
(* The variables of App's session handling; the dashboards leave them alone. *)
sessionVars == <<user, loading, session, loads>>

----------------------------------------------------------------------------
(* Bounds of the model *)

UnitsPerMinute == 2      \* clock resolution: one unit is 30 seconds
MonthLen == 15           \* days in a calendar month
MaxClockDays == 1        \* days the clock runs through
MaxPending == 1          \* supabase calls in flight at once
MaxCalls == 2            \* supabase calls issued in one run
MaxLoaded == 2           \* rows of attendance_records that fetchAppData loads
MaxInFlight == 2         \* supabase calls in flight at once when calls overlap

(* Units of time *)
Hour == 60 * UnitsPerMinute
DayLen == 24 * Hour
MinutesPerDay == 24 * 60

(* null, and the empty string of a form field *)
Null == -1

(* The first day of the current month; the month before it is the previous month. *)
StartDay == 2 * MonthLen
ClockDays == StartDay .. (StartDay + MaxClockDays - 1)

(* Time zones the browser may run in: UTC-5 and UTC+5:30. *)
TZOffsets == {(0 - 300) * UnitsPerMinute, 330 * UnitsPerMinute}

(* Local times of day at which the clock is observed:
   03:00:00, one unit before 10:00, 10:00:00, 20:00:00. *)
ClockTimes == {3 * Hour, 10 * Hour - 1, 10 * Hour, 20 * Hour}

(* The instants the clock takes in time zone z. *)
ClockInstants(z) == {d * DayLen + t - z : d \in ClockDays, t \in ClockTimes}

(* Values typed into the modal's date field: empty, the last day of the
   previous month, the first and the second day of the current month. *)
FormDates == {Null, StartDay - 1, StartDay, StartDay + 1}

(* Values typed into the modal's datetime-local fields: empty, and 09:00
   and 22:00 of the first day of the current month. *)
FormTimes == {Null, StartDay * MinutesPerDay + 9 * 60,
              StartDay * MinutesPerDay + 22 * 60}

----------------------------------------------------------------------------
(* types.ts *)

PRESENT == "Present"
LATE == "Late"

currentUser == "e1"

AttendanceRecord(id, employeeId, date, checkIn, checkOut, status, durationHours) ==
    [id |-> id, employeeId |-> employeeId, date |-> date, checkIn |-> checkIn,
     checkOut |-> checkOut, status |-> status, durationHours |-> durationHours]

(* No record: undefined from Array.find, null in editingRecord. *)
NoRecord == AttendanceRecord(<<"", Null>>, "", Null, Null, Null, "", 0)

(* A faulty RecordId: the date is left out of the id. *)
RecordIdWithoutDate(employeeId, date) == <<employeeId, Null>>

(* `${employeeId}-${date}` *)
RecordId(employeeId, date) == <<employeeId, date>>

----------------------------------------------------------------------------
(* Date arithmetic: Date, date-fns *)

(* format(t, 'yyyy-MM-dd'): the local calendar date of an instant *)
formatDate(t) == (t + tz) \div DayLen

(* Date.prototype.getHours: the local hour of day of an instant *)
getHours(t) == ((t + tz) % DayLen) \div Hour

(* new Date('yyyy-MM-dd'): a date-only string is parsed as UTC midnight *)
parseDateOnly(d) == d * DayLen

(* new Date('yyyy-MM-ddTHH:mm'): a date-time string without offset is local time *)
parseDateTimeLocal(m) == m * UnitsPerMinute - tz

(* format(parseISO(iso), "yyyy-MM-dd'T'HH:mm"): local time cut to the minute *)
formatDateTimeLocal(t) == (t + tz) \div UnitsPerMinute

(* date-fns differenceInMinutes(later, earlier): full minutes, truncated toward zero *)
differenceInMinutes(later, earlier) ==
    IF later >= earlier THEN (later - earlier) \div UnitsPerMinute
    ELSE 0 - ((earlier - later) \div UnitsPerMinute)

(* Number((minutes / 60).toFixed(2)), in hundredths of an hour.  minutes/60
   has no decimal tie at two places, so toFixed rounds to nearest. *)
toFixed2Hours(minutes) ==
    IF minutes >= 0 THEN (10 * minutes + 3) \div 6
    ELSE 0 - ((10 * (0 - minutes) + 3) \div 6)

(* the calendar month of a date *)
monthOf(d) == d \div MonthLen

----------------------------------------------------------------------------
(* Derived values of a render of EmployeeDashboard *)

todayStr == formatDate(now)

(* A faulty myRecords: the records of every employee. *)
everyonesRecords == attendanceRecords

(* records.filter(r => r.employeeId === currentUser.id) *)
myRecords == SelectSeq(attendanceRecords, LAMBDA r : r.employeeId = currentUser)

(* Array.prototype.find: the first element that matches, or undefined *)
FindFirst(s, Test(_)) ==
    IF \E i \in 1..Len(s) : Test(s[i])
    THEN s[CHOOSE i \in 1..Len(s) : Test(s[i]) /\ \A j \in 1..(i - 1) : ~Test(s[j])]
    ELSE NoRecord

todayRecord == FindFirst(myRecords, LAMBDA r : r.date = todayStr)

(* isSameMonth(recordDate, today), and isWithinInterval over the previous month *)
inSelectedMonth(r, month) ==
    IF month = "current"
    THEN monthOf(r.date) = monthOf(todayStr)
    ELSE monthOf(r.date) = monthOf(todayStr) - 1

filteredRecords == SelectSeq(myRecords, LAMBDA r : inSelectedMonth(r, selectedMonth))

----------------------------------------------------------------------------
(* App: the optimistic update of the local set *)

Range(s) == {s[i] : i \in 1..Len(s)}

(* A faulty handleUpdateRecordLocal: the record is appended without looking
   for its id. *)
handleUpdateRecordAppendOnly(prevRecords, updatedRecord) ==
    Append(prevRecords, updatedRecord)

handleUpdateRecordLocal(prevRecords, updatedRecord) ==
    IF \E i \in 1..Len(prevRecords) : prevRecords[i].id = updatedRecord.id
    THEN [i \in 1..Len(prevRecords) |->
            IF prevRecords[i].id = updatedRecord.id THEN updatedRecord ELSE prevRecords[i]]
    ELSE Append(prevRecords, updatedRecord)

(* A faulty handleDeleteRecordLocal: the filter keeps nothing. *)
handleDeleteRecordClearsAll(prevRecords, recordId) == <<>>

handleDeleteRecordLocal(prevRecords, recordId) ==
    SelectSeq(prevRecords, LAMBDA r : r.id # recordId)

UpsertCall(r) == [kind |-> "upsert", id |-> r.id, rec |-> r]
DeleteCall(recordId) == [kind |-> "delete", id |-> recordId, rec |-> NoRecord]

(* A faulty onUpdateRecord: the upsert is sent and the local set is left for
   later. *)
onUpdateRecordNotOptimistic(updatedRecord) ==
    /\ Len(pending) < MaxPending
    /\ calls < MaxCalls
    /\ calls' = calls + 1
    /\ attendanceRecords' = attendanceRecords
    /\ pending' = Append(pending, UpsertCall(updatedRecord))

(* handleUpdateRecord up to its await: the local set is updated and the upsert is sent *)
onUpdateRecord(updatedRecord) ==
    /\ Len(pending) < MaxPending
    /\ calls < MaxCalls
    /\ calls' = calls + 1
    /\ attendanceRecords' = handleUpdateRecordLocal(attendanceRecords, updatedRecord)
    /\ pending' = Append(pending, UpsertCall(updatedRecord))

(* handleDeleteRecord up to its await *)
onDeleteRecord(recordId) ==
    /\ Len(pending) < MaxPending
    /\ calls < MaxCalls
    /\ calls' = calls + 1
    /\ attendanceRecords' = handleDeleteRecordLocal(attendanceRecords, recordId)
    /\ pending' = Append(pending, DeleteCall(recordId))

----------------------------------------------------------------------------
Init ==
    /\ tz \in TZOffsets
    /\ now = StartDay * DayLen + 3 * Hour - tz
    /\ attendanceRecords = <<>>
    /\ pending = <<>>
    /\ remote = {}
    /\ calls = 0
    /\ isEditModalOpen = FALSE
    /\ isCreating = FALSE
    /\ editingRecord = NoRecord
    /\ selectedMonth = "current"
    /\ outcome = "none"
    /\ user = currentUser
    /\ loading = FALSE
    /\ session = TRUE
    /\ loads = {}

(* The clock advances (the 1 s timer re-renders the dashboard). *)
Tick ==
    /\ \E t \in ClockInstants(tz) : t > now /\ now' = t
    /\ outcome' = "none"
    /\ UNCHANGED <<sessionVars, tz, attendanceRecords, pending, remote, calls, isEditModalOpen, isCreating,
                   editingRecord, selectedMonth>>

----------------------------------------------------------------------------
(* Today's status card: which of the two buttons is rendered *)

(* A faulty CheckInOffered: the check-in button is always rendered. *)
CheckInAlwaysOffered == TRUE

CheckInOffered == todayRecord = NoRecord

(* A faulty CheckOutOffered: the check-out button stays after a check-out. *)
CheckOutOfferedAfterCheckOut == todayRecord # NoRecord

CheckOutOffered == todayRecord # NoRecord /\ todayRecord.checkOut = Null

(* A faulty checkInStatus: late only after the 10 o'clock hour. *)
checkInStatusAfterTen(t) == IF getHours(t) > 10 THEN LATE ELSE PRESENT

(* handleCheckIn: the record it builds *)
checkInStatus(t) == IF getHours(t) >= 10 THEN LATE ELSE PRESENT

checkInRecord(t) ==
    AttendanceRecord(RecordId(currentUser, todayStr), currentUser, todayStr,
                     t, Null, checkInStatus(t), 0)

handleCheckIn ==
    /\ onUpdateRecord(checkInRecord(now))
    /\ outcome' = "none"

(* The employee asks to check in: handleCheckIn runs when its button is rendered. *)
CheckIn ==
    /\ ~isEditModalOpen
    /\ IF CheckInOffered
       THEN handleCheckIn
       ELSE /\ outcome' = "checkInRefused"
            /\ UNCHANGED <<attendanceRecords, pending, calls>>
    /\ UNCHANGED <<sessionVars, tz, now, remote, isEditModalOpen, isCreating, editingRecord,
                   selectedMonth>>

(* A faulty checkOutRecord: the status is classified again, by the hour of
   the check-out. *)
checkOutRecordReclassified(rec, t) ==
    [rec EXCEPT !.checkOut = t, !.durationHours = 0, !.status = checkInStatus(t)]

(* handleCheckOut: the record it builds from today's record *)
checkOutRecord(rec, t) ==
    LET checkInTime == IF rec.checkIn # Null THEN rec.checkIn ELSE t
        diffMinutes == differenceInMinutes(t, checkInTime)
    IN  [rec EXCEPT !.checkOut = t, !.durationHours = toFixed2Hours(diffMinutes)]

handleCheckOut ==
    IF todayRecord = NoRecord
    THEN /\ outcome' = "none"
         /\ UNCHANGED <<attendanceRecords, pending, calls>>
    ELSE /\ onUpdateRecord(checkOutRecord(todayRecord, now))
         /\ outcome' = "none"

(* The employee asks to check out: handleCheckOut runs when its button is rendered. *)
CheckOut ==
    /\ ~isEditModalOpen
    /\ IF CheckOutOffered
       THEN handleCheckOut
       ELSE /\ outcome' = "checkOutRefused"
            /\ UNCHANGED <<attendanceRecords, pending, calls>>
    /\ UNCHANGED <<sessionVars, tz, now, remote, isEditModalOpen, isCreating, editingRecord,
                   selectedMonth>>

----------------------------------------------------------------------------
(* The edit / add modal *)

(* Records with an Edit and a Delete button: the rows of the attendance log *)
TableRows == Range(filteredRecords)

openEditModal(record) ==
    /\ ~isEditModalOpen
    /\ isCreating' = FALSE
    /\ editingRecord' = record
    /\ isEditModalOpen' = TRUE
    /\ outcome' = "none"
    /\ UNCHANGED <<sessionVars, tz, now, attendanceRecords, pending, remote, calls, selectedMonth>>

(* Edit in a row of the log, or Modify Time on today's card *)
OpenEdit ==
    \E record \in TableRows \cup ({todayRecord} \ {NoRecord}) : openEditModal(record)

handleAddNew ==
    /\ ~isEditModalOpen
    /\ isCreating' = TRUE
    /\ editingRecord' = NoRecord
    /\ isEditModalOpen' = TRUE
    /\ outcome' = "none"
    /\ UNCHANGED <<sessionVars, tz, now, attendanceRecords, pending, remote, calls, selectedMonth>>

(* X and Cancel *)
CloseModal ==
    /\ isEditModalOpen
    /\ isEditModalOpen' = FALSE
    /\ outcome' = "none"
    /\ UNCHANGED <<sessionVars, tz, now, attendanceRecords, pending, remote, calls, isCreating,
                   editingRecord, selectedMonth>>

(* editForm as openEditModal fills it from the record *)
prefilledForm(record) ==
    [date |-> record.date,
     checkIn |-> IF record.checkIn # Null
                 THEN formatDateTimeLocal(record.checkIn) ELSE Null,
     checkOut |-> IF record.checkOut # Null
                  THEN formatDateTimeLocal(record.checkOut) ELSE Null]

(* editForm when Save is pressed: what openEditModal / handleAddNew filled in,
   with any field the employee has retyped since (the inputs' onChange).
   The date input is disabled unless creating. *)
EditForms ==
    IF isCreating
    THEN [date : FormDates \cup {todayStr}, checkIn : FormTimes, checkOut : FormTimes]
    ELSE [date : {editingRecord.date},
          checkIn : FormTimes \cup {prefilledForm(editingRecord).checkIn},
          checkOut : FormTimes \cup {prefilledForm(editingRecord).checkOut}]

(* handleSaveEdit: its validations, in the code's order; "ok" when all pass *)
isFutureDate(date, t) == parseDateOnly(date) > t

(* A faulty recordExists: the existence check finds nothing. *)
recordExistsNever(records, date) == FALSE

recordExists(records, date) ==
    \E i \in 1..Len(records) : records[i].id = RecordId(currentUser, date)

(* A faulty isInvalidRange: the order of the two times is not checked. *)
isInvalidRangeNever(form) == FALSE

isInvalidRange(form) ==
    /\ form.checkIn # Null
    /\ form.checkOut # Null
    /\ parseDateTimeLocal(form.checkOut) < parseDateTimeLocal(form.checkIn)

saveEditVerdict(creating, editing, form, records, t) ==
    IF ~creating /\ editing = NoRecord THEN "return"
    ELSE IF creating /\ form.date = Null THEN "return"
    ELSE IF isFutureDate(form.date, t) THEN "future"
    ELSE IF creating /\ recordExists(records, form.date) THEN "exists"
    ELSE IF isInvalidRange(form) THEN "range"
    ELSE "ok"

(* handleSaveEdit: the record it builds *)
saveEditDuration(form) ==
    IF form.checkIn # Null /\ form.checkOut # Null
    THEN LET diff == differenceInMinutes(parseDateTimeLocal(form.checkOut),
                                         parseDateTimeLocal(form.checkIn))
         IN  IF diff > 0 THEN toFixed2Hours(diff) ELSE 0
    ELSE 0

saveEditStatus(form) ==
    IF form.checkIn # Null /\ form.checkOut # Null
       /\ getHours(parseDateTimeLocal(form.checkIn)) >= 10
    THEN LATE ELSE PRESENT

saveEditRecord(creating, editing, form) ==
    AttendanceRecord(IF creating THEN RecordId(currentUser, form.date) ELSE editing.id,
                     currentUser, form.date,
                     IF form.checkIn # Null THEN parseDateTimeLocal(form.checkIn) ELSE Null,
                     IF form.checkOut # Null THEN parseDateTimeLocal(form.checkOut) ELSE Null,
                     saveEditStatus(form), saveEditDuration(form))

handleSaveEdit(editForm) ==
    /\ isEditModalOpen
    /\ LET verdict == saveEditVerdict(isCreating, editingRecord, editForm,
                                      attendanceRecords, now)
       IN  IF verdict = "ok"
           THEN /\ onUpdateRecord(saveEditRecord(isCreating, editingRecord, editForm))
                /\ isEditModalOpen' = FALSE
                /\ outcome' = "none"
           ELSE /\ outcome' = (IF verdict = "return" THEN "none" ELSE verdict)
                /\ UNCHANGED <<attendanceRecords, pending, calls, isEditModalOpen>>
    /\ UNCHANGED <<sessionVars, tz, now, remote, isCreating, editingRecord, selectedMonth>>

SaveEdit == \E editForm \in EditForms : handleSaveEdit(editForm)

(* handleDelete: window.confirm, then onDeleteRecord *)
handleDelete(record, confirmed) ==
    /\ ~isEditModalOpen
    /\ outcome' = "none"
    /\ IF confirmed
       THEN onDeleteRecord(record.id)
       ELSE UNCHANGED <<attendanceRecords, pending, calls>>
    /\ UNCHANGED <<sessionVars, tz, now, remote, isEditModalOpen, isCreating, editingRecord,
                   selectedMonth>>

Delete == \E record \in TableRows, confirmed \in BOOLEAN : handleDelete(record, confirmed)

setSelectedMonth ==
    /\ ~isEditModalOpen
    /\ \E m \in {"current", "previous"} : m # selectedMonth /\ selectedMonth' = m
    /\ outcome' = "none"
    /\ UNCHANGED <<sessionVars, tz, now, attendanceRecords, pending, remote, calls, isEditModalOpen,
                   isCreating, editingRecord>>

----------------------------------------------------------------------------
(* App: the awaited supabase calls settle *)

RemoveAt(s, i) == [j \in 1..(Len(s) - 1) |-> IF j < i THEN s[j] ELSE s[j + 1]]

(* upsert: create-or-replace of the row with the record's id *)
remoteUpsert(rows, r) == {x \in rows : x.id # r.id} \cup {r}

remoteDelete(rows, recordId) == {x \in rows : x.id # recordId}

(* A faulty UpsertSettles: a failed upsert takes the record out of the local
   set again. *)
UpsertSettlesWithRollback ==
    \E i \in 1..Len(pending) :
        /\ pending[i].kind = "upsert"
        /\ pending' = RemoveAt(pending, i)
        /\ \/ /\ remote' = remoteUpsert(remote, pending[i].rec)
              /\ outcome' = "none"
              /\ attendanceRecords' = attendanceRecords
           \/ /\ remote' = remote
              /\ outcome' \in {"saveFailed", "saveUnexpected"}
              /\ attendanceRecords' = handleDeleteRecordLocal(attendanceRecords, pending[i].id)
        /\ UNCHANGED <<sessionVars, tz, now, calls, isEditModalOpen, isCreating,
                       editingRecord, selectedMonth>>

(* The rest of handleUpdateRecord: the upsert resolves, with an error, or throws. *)
UpsertSettles ==
    \E i \in 1..Len(pending) :
        /\ pending[i].kind = "upsert"
        /\ pending' = RemoveAt(pending, i)
        /\ \/ /\ remote' = remoteUpsert(remote, pending[i].rec)
              /\ outcome' = "none"
           \/ /\ remote' = remote
              /\ outcome' = "saveFailed"
           \/ /\ remote' = remote
              /\ outcome' = "saveUnexpected"
        /\ UNCHANGED <<sessionVars, tz, now, attendanceRecords, calls, isEditModalOpen, isCreating,
                       editingRecord, selectedMonth>>

(* The rest of handleDeleteRecord: the delete resolves, or fails. *)
DeleteSettles ==
    \E i \in 1..Len(pending) :
        /\ pending[i].kind = "delete"
        /\ pending' = RemoveAt(pending, i)
        /\ \/ /\ remote' = remoteDelete(remote, pending[i].id)
              /\ outcome' = "none"
           \/ /\ remote' = remote
              /\ outcome' = "deleteFailed"
        /\ UNCHANGED <<sessionVars, tz, now, attendanceRecords, calls, isEditModalOpen, isCreating,
                       editingRecord, selectedMonth>>

----------------------------------------------------------------------------
Next ==
    \/ Tick
    \/ CheckIn
    \/ CheckOut
    \/ OpenEdit
    \/ handleAddNew
    \/ CloseModal
    \/ SaveEdit
    \/ Delete
    \/ setSelectedMonth
    \/ UpsertSettles
    \/ DeleteSettles

Spec == Init /\ [][Next]_vars

----------------------------------------------------------------------------
(* App's record handlers over a local set that fetchAppData has loaded: the
   set holds rows of several employees, and the handlers are applied to any
   record and any id. *)

AppEmployees == {currentUser, "e2"}
AppDates == {StartDay - 1, StartDay}
AppIds == {RecordId(e, d) : e \in AppEmployees, d \in AppDates}

(* Rows of attendance_records: a day checked in at 09:00 UTC, open or checked
   out eight hours later. *)
AppRecords ==
    {AttendanceRecord(RecordId(e, d), e, d, parseDateOnly(d) + 9 * Hour,
                      IF out THEN parseDateOnly(d) + 17 * Hour ELSE Null,
                      PRESENT, IF out THEN 800 ELSE 0) :
        e \in AppEmployees, d \in AppDates, out \in BOOLEAN}

(* The arrays that list the rows of a table, in any order *)
RowOrders(rows) ==
    {q \in [1..Cardinality(rows) -> rows] : \A r \in rows : \E i \in DOMAIN q : q[i] = r}

(* After fetchAppData: the local set is the rows of the table, whose primary
   key is id. *)
AppInit ==
    /\ tz \in TZOffsets
    /\ now = StartDay * DayLen + 3 * Hour - tz
    /\ remote \in {rows \in SUBSET AppRecords :
                     /\ Cardinality(rows) <= MaxLoaded
                     /\ \A x, y \in rows : x.id = y.id => x = y}
    /\ attendanceRecords \in RowOrders(remote)
    /\ pending = <<>>
    /\ calls = 0
    /\ isEditModalOpen = FALSE
    /\ isCreating = FALSE
    /\ editingRecord = NoRecord
    /\ selectedMonth = "current"
    /\ outcome = "none"
    /\ user = currentUser
    /\ loading = FALSE
    /\ session = TRUE
    /\ loads = {}

handleUpdateRecord(updatedRecord) ==
    /\ onUpdateRecord(updatedRecord)
    /\ outcome' = "none"
    /\ UNCHANGED <<sessionVars, tz, now, remote, isEditModalOpen, isCreating, editingRecord,
                   selectedMonth>>

handleDeleteRecord(recordId) ==
    /\ onDeleteRecord(recordId)
    /\ outcome' = "none"
    /\ UNCHANGED <<sessionVars, tz, now, remote, isEditModalOpen, isCreating, editingRecord,
                   selectedMonth>>

AppUpdateRecord == \E updatedRecord \in AppRecords : handleUpdateRecord(updatedRecord)

AppDeleteRecord == \E recordId \in AppIds : handleDeleteRecord(recordId)

AppNext ==
    \/ AppUpdateRecord
    \/ AppDeleteRecord
    \/ UpsertSettles
    \/ DeleteSettles

SpecApp == AppInit /\ [][AppNext]_vars

----------------------------------------------------------------------------
(* Manual entry over the dates the employee can type into the Add Missing
   Record form, those outside the date input's min and max included: the
   onChange of the input stores any date, and Save is a button's onClick,
   which validates nothing of the input. *)

(* previousMonthStart, the min of the date input *)
previousMonthStart == StartDay - MonthLen

ManualEntryDates == FormDates \cup {previousMonthStart - 1, previousMonthStart}

ManualEntryForms == [date : ManualEntryDates, checkIn : FormTimes, checkOut : FormTimes]

(* Save Changes of the Add Missing Record form *)
ManualEntry ==
    /\ isCreating
    /\ \E editForm \in ManualEntryForms : handleSaveEdit(editForm)

ManualEntryNext ==
    \/ Tick
    \/ handleAddNew
    \/ CloseModal
    \/ ManualEntry
    \/ UpsertSettles

SpecManualEntry == Init /\ [][ManualEntryNext]_vars

----------------------------------------------------------------------------
(* App: the session check at mount, the auth listener, fetchProfile and
   fetchAppData.  Each await and each retry timer that has not completed is an
   element of loads; it carries the run of the code it belongs to (by), the
   retries argument of its fetchProfile, and, for the records query of
   fetchAppData once the store has answered it, the rows of the answer. *)

(* user === null; a user is held by the id of its profile *)
NoUser == ""

(* fetchProfile(userId, retries = 3) *)
DefaultRetries == 3

Load(kind, by, retries, rows) == [kind |-> kind, by |-> by, retries |-> retries, rows |-> rows]

(* await supabase.auth.getSession() of checkSession *)
getSessionCall(by) == Load("getSession", by, 0, {})

(* await supabase.from('profiles').select('*').eq('id', userId).single() *)
profileCall(by, retries) == Load("profile", by, retries, {})

(* setTimeout(() => fetchProfile(userId, retries - 1), 1000): retries is the
   argument the timer will pass *)
retryTimer(by, retries) == Load("timer", by, retries, {})

(* fetchAppData awaiting its queries; the store has not read the records yet *)
appDataCall(by) == Load("appData", by, 0, {})

(* fetchAppData awaiting the answer of the records query, which holds rows *)
appDataReply(by, rows) == Load("appDataReply", by, 0, rows)

(* The effect depends on user?.id: when the id changes the effect runs again,
   and with it checkSession.  One such run is followed at a time: a run that
   starts while the last one has not completed is not followed. *)
effectRuns(ops, oldUser, newUser) ==
    IF oldUser # newUser /\ (\A op \in ops : op.by # "rerun")
    THEN {getSessionCall("rerun")} ELSE {}

(* Records the signed-in employee's dashboard passes to onUpdateRecord:
   today's record, open and checked out *)
SessionRecords == {r \in AppRecords : r.employeeId = currentUser /\ r.date = StartDay}

(* The rows of attendance_records when App is mounted: none, or one of
   another employee *)
SessionRows == {r \in AppRecords : r.employeeId # currentUser /\ r.date = StartDay
                                   /\ r.checkOut # Null}

(* App is mounted: loading is true, checkSession has called getSession. *)
SessionInit ==
    /\ tz = 0
    /\ now = StartDay * DayLen + 3 * Hour
    /\ remote \in {{}, SessionRows}
    /\ attendanceRecords = <<>>
    /\ pending = <<>>
    /\ calls = 0
    /\ isEditModalOpen = FALSE
    /\ isCreating = FALSE
    /\ editingRecord = NoRecord
    /\ selectedMonth = "current"
    /\ outcome = "none"
    /\ user = NoUser
    /\ loading = TRUE
    /\ session \in BOOLEAN
    /\ loads = {getSessionCall("mount")}

(* checkSession after its await: fetchProfile when there is a session,
   setLoading(false) when there is none or getSession threw. *)
GetSessionSettles ==
    \E op \in loads :
        /\ op.kind = "getSession"
        /\ \/ /\ session
              /\ loads' = (loads \ {op}) \cup {profileCall(op.by, DefaultRetries)}
              /\ loading' = loading
           \/ /\ loads' = loads \ {op}
              /\ loading' = FALSE
        /\ outcome' = "none"
        /\ UNCHANGED <<user, session, tz, now, attendanceRecords, pending, remote, calls,
                       isEditModalOpen, isCreating, editingRecord, selectedMonth>>

(* The auth listener is called with a session (INITIAL_SESSION, SIGNED_IN,
   TOKEN_REFRESHED) while the user is not loaded: fetchProfile.  One such
   load runs at a time. *)
AuthStateChange ==
    /\ session
    /\ user = NoUser
    /\ \A op \in loads : op.by # "listener"
    /\ loads' = loads \cup {profileCall("listener", DefaultRetries)}
    /\ outcome' = "none"
    /\ UNCHANGED <<user, loading, session, tz, now, attendanceRecords, pending, remote, calls,
                   isEditModalOpen, isCreating, editingRecord, selectedMonth>>

(* LoginPage: signInWithPassword succeeds. *)
SignIn ==
    /\ ~session
    /\ user = NoUser
    /\ ~loading
    /\ session' = TRUE
    /\ outcome' = "none"
    /\ UNCHANGED <<user, loading, loads, tz, now, attendanceRecords, pending, remote, calls,
                   isEditModalOpen, isCreating, editingRecord, selectedMonth>>

(* The session ends (handleLogout's signOut, another tab, expiry) and the
   auth listener is called without a session. *)
SignOut ==
    /\ session
    /\ session' = FALSE
    /\ user' = NoUser
    /\ attendanceRecords' = <<>>
    /\ loading' = FALSE
    /\ loads' = loads \cup effectRuns(loads, user, NoUser)
    /\ outcome' = "none"
    /\ UNCHANGED <<tz, now, pending, remote, calls, isEditModalOpen, isCreating,
                   editingRecord, selectedMonth>>

(* fetchProfile: data arrived *)
profileLoaded(op) ==
    /\ user' = currentUser
    /\ loads' = ((loads \ {op}) \cup {appDataCall(op.by)}) \cup effectRuns(loads, user, currentUser)
    /\ loading' = loading
    /\ outcome' = "none"

(* A faulty profileFails: the retry is scheduled with the same counter. *)
profileFailsSameRetries(op) ==
    /\ user' = user
    /\ loads' = (loads \ {op}) \cup {retryTimer(op.by, op.retries)}
    /\ loading' = loading
    /\ outcome' = "none"

(* A faulty profileFails: nothing is done once the retries are exhausted. *)
profileFailsKeepsLoading(op) ==
    /\ user' = user
    /\ loading' = loading
    /\ outcome' = "none"
    /\ IF op.retries > 0
       THEN loads' = (loads \ {op}) \cup {retryTimer(op.by, op.retries - 1)}
       ELSE loads' = loads \ {op}

(* fetchProfile: its catch block *)
profileFails(op) ==
    /\ user' = user
    /\ IF op.retries > 0
       THEN /\ loads' = (loads \ {op}) \cup {retryTimer(op.by, op.retries - 1)}
            /\ loading' = loading
            /\ outcome' = "none"
       ELSE /\ loads' = loads \ {op}
            /\ loading' = FALSE
            /\ outcome' = "profileFailed"

(* fetchProfile after its await: a profile, or an error result, no row, or an
   exception *)
ProfileSettles ==
    \E op \in loads :
        /\ op.kind = "profile"
        /\ profileLoaded(op) \/ profileFails(op)
        /\ UNCHANGED <<session, tz, now, attendanceRecords, pending, remote, calls,
                       isEditModalOpen, isCreating, editingRecord, selectedMonth>>

(* The retry timer fires: fetchProfile(userId, retries - 1) *)
TimerFires ==
    \E op \in loads :
        /\ op.kind = "timer"
        /\ loads' = (loads \ {op}) \cup {profileCall(op.by, op.retries)}
        /\ outcome' = "none"
        /\ UNCHANGED <<user, loading, session, tz, now, attendanceRecords, pending, remote,
                       calls, isEditModalOpen, isCreating, editingRecord, selectedMonth>>

(* The store answers the records query of fetchAppData with its rows. *)
AppDataReads ==
    \E op \in loads :
        /\ op.kind = "appData"
        /\ loads' = (loads \ {op}) \cup {appDataReply(op.by, remote)}
        /\ outcome' = "none"
        /\ UNCHANGED <<user, loading, session, tz, now, attendanceRecords, pending, remote,
                       calls, isEditModalOpen, isCreating, editingRecord, selectedMonth>>

(* fetchAppData after its awaits: setAttendanceRecords with the rows of the
   answer, or nothing when a query failed; setLoading(false) in any case. *)
AppDataSettles ==
    \E op \in loads :
        /\ op.kind \in {"appData", "appDataReply"}
        /\ loads' = loads \ {op}
        /\ loading' = FALSE
        /\ \/ /\ op.kind = "appDataReply"
              /\ attendanceRecords' \in RowOrders(op.rows)
           \/ attendanceRecords' = attendanceRecords
        /\ outcome' = "none"
        /\ UNCHANGED <<user, session, tz, now, pending, remote, calls, isEditModalOpen,
                       isCreating, editingRecord, selectedMonth>>

(* The employee dashboard is rendered: it calls onUpdateRecord, onDeleteRecord. *)
SessionUpdateRecord ==
    /\ user # NoUser
    /\ ~loading
    /\ \E updatedRecord \in SessionRecords : handleUpdateRecord(updatedRecord)

SessionDeleteRecord ==
    /\ user # NoUser
    /\ ~loading
    /\ \E i \in 1..Len(attendanceRecords) :
          /\ attendanceRecords[i].employeeId = currentUser
          /\ handleDeleteRecord(attendanceRecords[i].id)

(* The session load alone *)
LoadNext ==
    \/ GetSessionSettles
    \/ AuthStateChange
    \/ SignIn
    \/ SignOut
    \/ ProfileSettles
    \/ TimerFires
    \/ AppDataReads
    \/ AppDataSettles

(* Every await settles and every timer fires. *)
LoadFairness ==
    /\ WF_vars(GetSessionSettles)
    /\ WF_vars(ProfileSettles)
    /\ WF_vars(TimerFires)
    /\ WF_vars(AppDataReads)
    /\ WF_vars(AppDataSettles)

SpecLoad == SessionInit /\ [][LoadNext]_vars /\ LoadFairness

(* The session load with the dashboard's record handlers *)
SessionNext ==
    \/ GetSessionSettles
    \/ AuthStateChange
    \/ SignIn
    \/ SignOut
    \/ ProfileSettles
    \/ TimerFires
    \/ AppDataReads
    \/ AppDataSettles
    \/ SessionUpdateRecord
    \/ SessionDeleteRecord
    \/ UpsertSettles
    \/ DeleteSettles

SpecSession == SessionInit /\ [][SessionNext]_vars

----------------------------------------------------------------------------
(* JavaScript numbers.  attendanceRate is computed in IEEE 754 double
   arithmetic: a division and a multiplication, each rounded to the nearest
   double (ties to even), then Math.round.  A positive double is
   (hi * 2^35 + mid * 2^17 + lo) / 2^exp, its 53-bit significand cut into
   pieces of 18, 18 and 17 bits with 2^17 <= hi, because TLC's integers are
   32 bits wide.  Counts are small integers: the model covers quotients and
   products below 2^17. *)

Limb == 2 ^ 18

HalfLimb == 2 ^ 17

Float64(hi, mid, lo, exp) == [hi |-> hi, mid |-> mid, lo |-> lo, exp |-> exp]

(* +0 *)
Float64Zero == Float64(0, 0, 0, 36)

(* Round to nearest, ties to even: the significand as computed, one more
   when roundUp says so; a carry out of the significand halves it. *)
roundToEven(hi, mid, lo, exp, roundUp) ==
    IF ~roundUp THEN Float64(hi, mid, lo, exp)
    ELSE IF lo + 1 < HalfLimb THEN Float64(hi, mid, lo + 1, exp)
    ELSE IF mid + 1 < Limb THEN Float64(hi, mid + 1, 0, exp)
    ELSE IF hi + 1 < Limb THEN Float64(hi + 1, 0, 0, exp)
    ELSE Float64(HalfLimb, 0, 0, exp - 1)

(* whether the digits dropped by a rounding make it round up: they are more
   than half a unit of the last digit kept, or exactly half and that digit
   is odd *)
roundsUp(dropped, half, sticky, lastKept) ==
    \/ dropped > half
    \/ dropped = half /\ (sticky \/ (lastKept % 2) = 1)

(* k / n for integers k >= 0, n > 0: long division to 54 binary digits *)
float64Div(k, n) ==
    IF k = 0 THEN Float64Zero
    ELSE LET s == CHOOSE e \in 0..30 :
                     HalfLimb * n <= k * (2 ^ e) /\ k * (2 ^ e) < Limb * n
             q1 == (k * (2 ^ s)) \div n
             r1 == (k * (2 ^ s)) % n
             q2 == (r1 * Limb) \div n
             r2 == (r1 * Limb) % n
             q3 == (r2 * Limb) \div n
             r3 == (r2 * Limb) % n
         IN  roundToEven(q1, q2, q3 \div 2, s + 35,
                         roundsUp(q3 % 2, 1, r3 # 0, q3 \div 2))

(* x * m for a double x and an integer 0 < m < 2^12 *)
float64Mul(x, m) ==
    IF x.hi = 0 THEN Float64Zero
    ELSE LET lo == x.lo * m
             mid == x.mid * m + (lo \div HalfLimb)
             hi == x.hi * m + (mid \div Limb)
             d == CHOOSE e \in 0..12 :
                     HalfLimb <= (hi \div (2 ^ e)) /\ (hi \div (2 ^ e)) < Limb
             low == (mid % (2 ^ d)) * HalfLimb + (lo % HalfLimb)
         IN  roundToEven(hi \div (2 ^ d),
                         (hi % (2 ^ d)) * (Limb \div (2 ^ d)) + ((mid % Limb) \div (2 ^ d)),
                         low \div (2 ^ d),
                         x.exp - d,
                         d > 0 /\ roundsUp(low % (2 ^ d), (2 ^ d) \div 2, FALSE,
                                           low \div (2 ^ d)))

(* Math.round of a double 0 <= x < 2^17: the nearest integer, a half is
   rounded up *)
MathRound(x) == ((x.hi \div (2 ^ (x.exp - 36))) + 1) \div 2

----------------------------------------------------------------------------
(* ManagerDashboard (src/unnamed/part_004).  The manager is shown the
   records of every employee; selectedMonth is here the period selected on
   the manager's dashboard.  Hours are kept exact, in hundredths of an hour,
   as durationHours is. *)

ABSENT == "Absent"
HALF_DAY == "Half Day"
ON_LEAVE == "On Leave"

managerUser == "m1"

(* A faulty parseISO: the date is read as midnight UTC. *)
parseISOAsUTC(d) == d * DayLen

(* date-fns parseISO of 'yyyy-MM-dd': midnight of that date in local time *)
parseISO(d) == d * DayLen - tz

(* date-fns isSameMonth: the local calendar months of two instants are the same *)
isSameMonth(dateLeft, dateRight) ==
    monthOf(formatDate(dateLeft)) = monthOf(formatDate(dateRight))

(* date-fns startOfMonth: local midnight of the first day of the instant's month *)
startOfMonth(t) == monthOf(formatDate(t)) * MonthLen * DayLen - tz

(* date-fns endOfMonth: the last instant of the last day of the instant's month *)
endOfMonth(t) == startOfMonth(t) + MonthLen * DayLen - 1

(* date-fns subMonths(t, 1): the same day and time of the month before *)
subMonths(t, amount) == t - amount * MonthLen * DayLen

(* date-fns isWithinInterval: start <= t <= end *)
isWithinInterval(t, start, end) == start <= t /\ t <= end

today == now

previousMonthDate == subMonths(today, 1)

previousMonthEnd == endOfMonth(previousMonthDate)

(* the test of the filter of filteredRecords *)
inManagerPeriod(record, month) ==
    IF month = "current"
    THEN isSameMonth(parseISO(record.date), today)
    ELSE isWithinInterval(parseISO(record.date), startOfMonth(previousMonthDate),
                          previousMonthEnd)

RECURSIVE ByKeyDescending(_, _)
(* the records of s whose date is one of keys, those of a later date first,
   those of one date in the order they have in s *)
ByKeyDescending(s, keys) ==
    IF keys = {} THEN <<>>
    ELSE LET latest == CHOOSE k \in keys : \A other \in keys : other <= k
         IN  SelectSeq(s, LAMBDA r : parseDateOnly(r.date) = latest)
             \o ByKeyDescending(s, keys \ {latest})

(* Array.prototype.sort((a, b) => new Date(b.date) - new Date(a.date)): by
   date, latest first; the sort is stable *)
sortByDateDescending(s) ==
    ByKeyDescending(s, {parseDateOnly(s[i].date) : i \in 1..Len(s)})

(* filteredRecords of ManagerDashboard *)
periodRecords(records, month) ==
    sortByDateDescending(SelectSeq(records, LAMBDA record : inManagerPeriod(record, month)))

managerFilteredRecords == periodRecords(attendanceRecords, selectedMonth)

(* formatDuration(hours): `${h}h ${m}m` as <<h, m>>, for num / den hundredths
   of an hour; Math.round of the minutes is exact here *)
formatDuration(num, den) ==
    LET unit == 100 * den
    IN  <<num \div unit, (120 * (num % unit) + unit) \div (2 * unit)>>

(* A faulty count: every record counts. *)
countAnyStatus(recs, status) == Len(recs)

(* recs.filter(r => r.status === status).length *)
countStatus(recs, status) == Len(SelectSeq(recs, LAMBDA r : r.status = status))

RECURSIVE SumOver(_, _)
(* the sum of durationHours over the records of recs whose durationHours is
   in values *)
SumOver(recs, values) ==
    IF values = {} THEN 0
    ELSE LET v == CHOOSE x \in values : TRUE
         IN  v * Len(SelectSeq(recs, LAMBDA r : r.durationHours = v))
             + SumOver(recs, values \ {v})

(* recs.reduce((acc, curr) => acc + curr.durationHours, 0) *)
totalHoursDecimal(recs) == SumOver(recs, {recs[i].durationHours : i \in 1..Len(recs)})

(* calculateStats(recs) *)
calculateStats(recs) ==
    LET totalRecords == Len(recs)
        present == countStatus(recs, PRESENT)
        late == countStatus(recs, LATE)
    IN  [totalHours |-> formatDuration(totalHoursDecimal(recs), 1),
         avgHours |-> IF totalRecords > 0
                      THEN formatDuration(totalHoursDecimal(recs), totalRecords)
                      ELSE formatDuration(0, 1),
         attendanceRate |-> IF totalRecords > 0
                            THEN MathRound(float64Mul(float64Div(present + late,
                                                                 totalRecords), 100))
                            ELSE 0,
         late |-> late,
         present |-> present]

globalStats == calculateStats(managerFilteredRecords)

(* format(parseISO(record.date), 'dd MMM'): day of the month and month *)
chartDay(date) ==
    <<(formatDate(parseISO(date)) % MonthLen) + 1, monthOf(formatDate(parseISO(date)))>>

(* dailyStats: one entry per key, in the order in which the keys were first
   inserted *)
dailyStats(recs) ==
    LET keyOf == [i \in 1..Len(recs) |-> chartDay(recs[i].date)]
        keys == {keyOf[i] : i \in 1..Len(recs)}
        first == [d \in keys |->
                    LET at == {i \in 1..Len(recs) : keyOf[i] = d}
                    IN  CHOOSE i \in at : \A j \in at : i <= j]
        rank == [d \in keys |-> Cardinality({e \in keys : first[e] <= first[d]})]
    IN  [p \in 1..Cardinality(keys) |->
           LET d == CHOOSE k \in keys : rank[k] = p
               ofDay == SelectSeq(recs, LAMBDA r : chartDay(r.date) = d)
           IN  [date |-> d,
                hours |-> totalHoursDecimal(ofDay),
                present |-> countStatus(ofDay, PRESENT) + countStatus(ofDay, LATE)]]

(* Array.prototype.reverse *)
Reverse(s) == [i \in 1..Len(s) |-> s[Len(s) + 1 - i]]

(* days shown by the chart *)
ChartDays == 14

(* Object.values(dailyStats).reverse().slice(0, 14) *)
chartSeries(recs) ==
    LET points == Reverse(dailyStats(recs))
    IN  SubSeq(points, 1, IF Len(points) < ChartDays THEN Len(points) ELSE ChartDays)

chartData == chartSeries(managerFilteredRecords)

(* The rows of attendance_records that the manager is shown: for each of
   three employees one row a day over consecutive days from a first day, the
   first rows Present and Late in turn, the others Absent, On Leave and
   Half Day in turn. *)
TeamEmployees == <<currentUser, "e2", "e3">>

TeamDays == MonthLen + 2

TeamFirstDays == {StartDay - MonthLen - 1, StartDay - 1, StartDay}

TeamStatus(i, attended) ==
    IF i < attended
    THEN (IF i % 2 = 0 THEN PRESENT ELSE LATE)
    ELSE <<ABSENT, ON_LEAVE, HALF_DAY>>[(i % 3) + 1]

TeamRecord(i, firstDay, attended) ==
    LET e == TeamEmployees[(i \div TeamDays) + 1]
        d == firstDay + (i % TeamDays)
        status == TeamStatus(i, attended)
    IN  CASE status = PRESENT ->
               AttendanceRecord(RecordId(e, d), e, d, parseDateOnly(d) + 9 * Hour,
                                parseDateOnly(d) + 17 * Hour, status, 800)
          [] status = LATE ->
               AttendanceRecord(RecordId(e, d), e, d, parseDateOnly(d) + 11 * Hour,
                                parseDateOnly(d) + 18 * Hour + 30 * UnitsPerMinute,
                                status, 750)
          [] status = HALF_DAY ->
               AttendanceRecord(RecordId(e, d), e, d, parseDateOnly(d) + 9 * Hour,
                                parseDateOnly(d) + 13 * Hour, status, 400)
          [] OTHER ->
               AttendanceRecord(RecordId(e, d), e, d, Null, Null, status, 0)

TeamRecords(firstDay, count, attended) ==
    [i \in 1..count |-> TeamRecord(i - 1, firstDay, attended)]

(* The manager's dashboard after fetchAppData, on the first day of a month
   at 03:00 or on its last day at 20:00. *)
ManagerInit ==
    /\ tz \in TZOffsets
    /\ now \in {StartDay * DayLen + 3 * Hour - tz,
                (StartDay + MonthLen - 1) * DayLen + 20 * Hour - tz}
    /\ \E firstDay \in TeamFirstDays, count \in 0..(Len(TeamEmployees) * TeamDays) :
          \E attended \in 0..count :
             attendanceRecords = TeamRecords(firstDay, count, attended)
    /\ remote = Range(attendanceRecords)
    /\ pending = <<>>
    /\ calls = 0
    /\ isEditModalOpen = FALSE
    /\ isCreating = FALSE
    /\ editingRecord = NoRecord
    /\ selectedMonth = "current"
    /\ outcome = "none"
    /\ user = managerUser
    /\ loading = FALSE
    /\ session = TRUE
    /\ loads = {}

(* onClick={() => setSelectedMonth('current')}, ...('previous') *)
ManagerSelectMonth ==
    /\ \E month \in {"current", "previous"} :
          /\ month # selectedMonth
          /\ selectedMonth' = month
    /\ UNCHANGED <<sessionVars, tz, now, attendanceRecords, pending, remote, calls,
                   isEditModalOpen, isCreating, editingRecord, outcome>>

ManagerNext == ManagerSelectMonth

SpecManager == ManagerInit /\ [][ManagerNext]_vars

----------------------------------------------------------------------------
(* The dashboards over a local set that holds the rows of a colleague: App
   renders ManagerDashboard for a manager, without record handlers, and
   EmployeeDashboard for anyone else. *)

ColleagueRecords == {r \in AppRecords : r.employeeId # currentUser}

TeamInit ==
    /\ tz \in TZOffsets
    /\ now = StartDay * DayLen + 3 * Hour - tz
    /\ remote \in {rows \in SUBSET ColleagueRecords :
                     /\ rows # {}
                     /\ Cardinality(rows) <= MaxLoaded
                     /\ \A x, y \in rows : x.id = y.id => x = y}
    /\ attendanceRecords \in RowOrders(remote)
    /\ pending = <<>>
    /\ calls = 0
    /\ isEditModalOpen = FALSE
    /\ isCreating = FALSE
    /\ editingRecord = NoRecord
    /\ selectedMonth = "current"
    /\ outcome = "none"
    /\ user \in {currentUser, managerUser}
    /\ loading = FALSE
    /\ session = TRUE
    /\ loads = {}

(* EmployeeDashboard is rendered *)
EmployeeStep ==
    /\ user = currentUser
    /\ \/ CheckIn
       \/ CheckOut
       \/ OpenEdit
       \/ handleAddNew
       \/ CloseModal
       \/ SaveEdit
       \/ Delete
       \/ UpsertSettles
       \/ DeleteSettles

(* ManagerDashboard is rendered *)
ManagerStep ==
    /\ user = managerUser
    /\ ManagerSelectMonth

TeamNext ==
    \/ EmployeeStep
    \/ ManagerStep

SpecTeam == TeamInit /\ [][TeamNext]_vars

----------------------------------------------------------------------------
(* Overlapping calls.  handleUpdateRecord and handleDeleteRecord do not wait
   for the calls sent before: a second call is sent while the first is in
   flight, and the two complete in either order.  Every call succeeds here. *)

OwnRecords == {r \in AppRecords : r.employeeId = currentUser}

RaceInit ==
    /\ tz \in TZOffsets
    /\ now = StartDay * DayLen + 3 * Hour - tz
    /\ remote \in {rows \in SUBSET OwnRecords : \A x, y \in rows : x.id = y.id => x = y}
    /\ attendanceRecords \in RowOrders(remote)
    /\ pending = <<>>
    /\ calls = 0
    /\ isEditModalOpen = FALSE
    /\ isCreating = FALSE
    /\ editingRecord = NoRecord
    /\ selectedMonth = "current"
    /\ outcome = "none"
    /\ user = currentUser
    /\ loading = FALSE
    /\ session = TRUE
    /\ loads = {}

(* handleUpdateRecord up to its await, whatever is in flight *)
OverlappingUpdate ==
    \E updatedRecord \in OwnRecords :
        /\ Len(pending) < MaxInFlight
        /\ calls < MaxCalls
        /\ calls' = calls + 1
        /\ attendanceRecords' = handleUpdateRecordLocal(attendanceRecords, updatedRecord)
        /\ pending' = Append(pending, UpsertCall(updatedRecord))
        /\ outcome' = "none"
        /\ UNCHANGED <<sessionVars, tz, now, remote, isEditModalOpen, isCreating,
                       editingRecord, selectedMonth>>

(* handleDeleteRecord up to its await, whatever is in flight *)
OverlappingDelete ==
    \E i \in 1..Len(attendanceRecords) :
        /\ Len(pending) < MaxInFlight
        /\ calls < MaxCalls
        /\ calls' = calls + 1
        /\ attendanceRecords' =
              handleDeleteRecordLocal(attendanceRecords, attendanceRecords[i].id)
        /\ pending' = Append(pending, DeleteCall(attendanceRecords[i].id))
        /\ outcome' = "none"
        /\ UNCHANGED <<sessionVars, tz, now, remote, isEditModalOpen, isCreating,
                       editingRecord, selectedMonth>>

(* The rest of handleUpdateRecord when the upsert succeeds *)
UpsertResolves ==
    \E i \in 1..Len(pending) :
        /\ pending[i].kind = "upsert"
        /\ pending' = RemoveAt(pending, i)
        /\ remote' = remoteUpsert(remote, pending[i].rec)
        /\ outcome' = "none"
        /\ UNCHANGED <<sessionVars, tz, now, attendanceRecords, calls, isEditModalOpen,
                       isCreating, editingRecord, selectedMonth>>

(* The rest of handleDeleteRecord when the delete succeeds *)
DeleteResolves ==
    \E i \in 1..Len(pending) :
        /\ pending[i].kind = "delete"
        /\ pending' = RemoveAt(pending, i)
        /\ remote' = remoteDelete(remote, pending[i].id)
        /\ outcome' = "none"
        /\ UNCHANGED <<sessionVars, tz, now, attendanceRecords, calls, isEditModalOpen,
                       isCreating, editingRecord, selectedMonth>>

RaceNext ==
    \/ OverlappingUpdate
    \/ OverlappingDelete
    \/ UpsertResolves
    \/ DeleteResolves

SpecRace == RaceInit /\ [][RaceNext]_vars

----------------------------------------------------------------------------
(* Properties *)

(* The records of the local set held for an employee and a date *)
RecordsFor(employeeId, date) ==
    {i \in 1..Len(attendanceRecords) :
        /\ attendanceRecords[i].employeeId = employeeId
        /\ attendanceRecords[i].date = date}

(* C1: after any sequence of check-in, check-out, manual create, manual edit
   and delete, the local set holds at most one record for each
   (employeeId, date) pair. *)
C1_OneRecordPerEmployeeDate ==
    \A i, j \in 1..Len(attendanceRecords) :
        (/\ attendanceRecords[i].employeeId = attendanceRecords[j].employeeId
         /\ attendanceRecords[i].date = attendanceRecords[j].date) => i = j

(* A second write for the same employee and date has been applied: the one
   record of the set carries a check-in and a check-out. *)
C1_Witness ==
    /\ calls = 2
    /\ Len(attendanceRecords) = 1
    /\ attendanceRecords[1].checkIn # Null
    /\ attendanceRecords[1].checkOut # Null

(* C2: a check-in for an employee on a date for which the local set already
   holds a record with a non-null checkIn is refused, and the existing record
   (with the rest of the local set) is left unchanged; no upsert is sent. *)
C2_SecondCheckInRefused ==
    [][(/\ CheckIn
        /\ \E i \in RecordsFor(currentUser, todayStr) : attendanceRecords[i].checkIn # Null)
       => (/\ attendanceRecords' = attendanceRecords
           /\ pending' = pending
           /\ outcome' = "checkInRefused")]_vars

(* A check-in has been asked for and refused while today's record holds a check-in. *)
C2_Witness ==
    /\ outcome = "checkInRefused"
    /\ todayRecord # NoRecord
    /\ todayRecord.checkIn # Null
    /\ todayRecord.checkIn < now

(* C3: check-out on a record whose checkIn is null fails: it sets no checkOut
   on that record and leaves the local set unchanged. *)
C3_CheckOutWithoutCheckInRefused ==
    [][(/\ CheckOut
        /\ todayRecord # NoRecord
        /\ todayRecord.checkIn = Null)
       => (/\ attendanceRecords' = attendanceRecords
           /\ pending' = pending)]_vars

(* C4: check-out on a record whose checkOut is already set is refused: the
   stored checkOut and durationHours are not overwritten by the check-out
   path, and no upsert is sent. *)
C4_SecondCheckOutRefused ==
    [][(/\ CheckOut
        /\ todayRecord # NoRecord
        /\ todayRecord.checkOut # Null)
       => (/\ attendanceRecords' = attendanceRecords
           /\ pending' = pending
           /\ outcome' = "checkOutRefused")]_vars

(* A check-out has been asked for and refused while today's record holds a check-out. *)
C4_Witness ==
    /\ outcome = "checkOutRefused"
    /\ todayRecord # NoRecord
    /\ todayRecord.checkOut # Null

(* C5: after any sequence of check-in, manual edit and check-out, every record
   of the local set has durationHours >= 0. *)
C5_DurationNeverNegative ==
    \A i \in 1..Len(attendanceRecords) : attendanceRecords[i].durationHours >= 0

(* The elapsed time between two instants in hours, rounded to two decimals and
   floored at 0, in hundredths of an hour. *)
ElapsedHundredths(checkIn, checkOut) ==
    IF checkOut <= checkIn THEN 0
    ELSE (2 * 100 * (checkOut - checkIn) + 60 * UnitsPerMinute)
            \div (2 * 60 * UnitsPerMinute)

(* C6: each record with both checkIn and checkOut present has durationHours
   equal to the elapsed time from checkIn to checkOut in hours rounded to two
   decimals (floored at 0); each record missing one of them has
   durationHours = 0. *)
C6_DurationIsElapsedHours ==
    \A i \in 1..Len(attendanceRecords) :
        LET r == attendanceRecords[i]
        IN  IF r.checkIn # Null /\ r.checkOut # Null
            THEN r.durationHours = ElapsedHundredths(r.checkIn, r.checkOut)
            ELSE r.durationHours = 0

(* C7: a manual create or edit whose supplied checkOut is earlier than its
   supplied checkIn is rejected: the local set is unchanged, no persistence
   call is issued for it, and the modal stays open under an alert (or, with
   no date given, nothing happens at all). *)
C7_CheckOutBeforeCheckInRejected ==
    [][\A editForm \in EditForms :
        (/\ editForm.checkIn # Null
         /\ editForm.checkOut # Null
         /\ editForm.checkOut < editForm.checkIn
         /\ handleSaveEdit(editForm))
        => (/\ attendanceRecords' = attendanceRecords
            /\ pending' = pending
            /\ calls' = calls
            /\ isEditModalOpen'
            /\ (outcome' \in {"range", "future", "exists"} \/ editForm.date = Null))]_vars

(* A save has been rejected for the order of its times. *)
C7_Witness ==
    /\ outcome = "range"
    /\ isEditModalOpen

(* C8: a manual entry whose date is after the current date is rejected under
   an alert and adds no record to the local set; a manual new entry for a
   past date inside the previous calendar month, with no existing record for
   that date, succeeds and adds exactly one record. *)
C8_FutureDateRejectedPastDateAccepted ==
    [][\A editForm \in EditForms :
        /\ (/\ handleSaveEdit(editForm)
            /\ editForm.date # Null
            /\ editForm.date > todayStr)
           => (/\ attendanceRecords' = attendanceRecords
               /\ pending' = pending
               /\ outcome' \in {"future", "exists", "range"})
        /\ (/\ handleSaveEdit(editForm)
            /\ isCreating
            /\ editForm.date # Null
            /\ editForm.date < todayStr
            /\ monthOf(editForm.date) = monthOf(todayStr) - 1
            /\ RecordsFor(currentUser, editForm.date) = {}
            /\ ~(/\ editForm.checkIn # Null
                 /\ editForm.checkOut # Null
                 /\ editForm.checkOut < editForm.checkIn))
           => (/\ Len(attendanceRecords') = Len(attendanceRecords) + 1
               /\ \A i \in 1..Len(attendanceRecords) :
                     attendanceRecords'[i] = attendanceRecords[i]
               /\ attendanceRecords'[Len(attendanceRecords')].employeeId = currentUser
               /\ attendanceRecords'[Len(attendanceRecords')].date = editForm.date)]_vars

(* C9: a manual create for an (employeeId, date) that already has a record in
   the local set is rejected under an alert (that a record exists, or, first,
   that the date is in the future), and the existing record is unchanged. *)
C9_DuplicateCreateRejected ==
    [][\A editForm \in EditForms :
        (/\ isCreating
         /\ editForm.date # Null
         /\ RecordsFor(currentUser, editForm.date) # {}
         /\ handleSaveEdit(editForm))
        => (/\ attendanceRecords' = attendanceRecords
            /\ pending' = pending
            /\ calls' = calls
            /\ outcome' \in {"exists", "future"})]_vars

(* A create has been rejected because the date has a record. *)
C9_Witness ==
    /\ outcome = "exists"
    /\ isEditModalOpen
    /\ isCreating
    /\ Len(attendanceRecords) > 0

(* C10: a successful check-in creates a record with checkIn = now,
   checkOut = null, durationHours = 0, and status Late when now's local hour
   of day is >= 10 and Present when it is < 10. *)
C10_CheckInRecord ==
    [][(CheckIn /\ outcome' # "checkInRefused")
       => (/\ RecordsFor(currentUser, todayStr) = {}
           /\ attendanceRecords' = Append(attendanceRecords,
                [id |-> <<currentUser, (now + tz) \div DayLen>>,
                 employeeId |-> currentUser,
                 date |-> (now + tz) \div DayLen,
                 checkIn |-> now,
                 checkOut |-> Null,
                 status |-> IF (now + tz) % DayLen >= 10 * Hour THEN "Late" ELSE "Present",
                 durationHours |-> 0]))]_vars

(* A check-in at 10:00:00 local time has just been recorded, as Late. *)
C10_Witness ==
    /\ (now + tz) % DayLen = 10 * Hour
    /\ todayRecord # NoRecord
    /\ todayRecord.checkIn = now
    /\ todayRecord.checkOut = Null
    /\ todayRecord.status = LATE
    /\ Len(pending) > 0

(* The local hour of day of a datetime-local form value *)
FormHour(m) == (m % MinutesPerDay) \div 60

(* C11: the status written by a manual entry depends only on the check-in's
   hour of day: a saved entry whose check-in is at or after 10:00 is Late and
   one whose check-in is before 10:00 is Present, whether or not a check-out
   is supplied. *)
C11_StatusFromCheckInHourOnly ==
    [][\A editForm \in EditForms :
        (/\ handleSaveEdit(editForm)
         /\ calls' = calls + 1
         /\ editForm.checkIn # Null)
        => pending'[Len(pending')].rec.status =
              (IF FormHour(editForm.checkIn) >= 10 THEN "Late" ELSE "Present")]_vars

(* C12: in every reachable state, a record of the local set with null checkIn
   has a status other than Present and Late. *)
C12_NoCheckInNotPresentOrLate ==
    \A i \in 1..Len(attendanceRecords) :
        attendanceRecords[i].checkIn = Null
            => attendanceRecords[i].status \notin {"Present", "Late"}

(* C13: a check-out changes only checkOut and durationHours of today's
   record: its id, employeeId, date, checkIn and status keep their values,
   the record keeps its place and every other record is unchanged. *)
C13_CheckOutFrame ==
    [][(CheckOut /\ outcome' # "checkOutRefused")
       => (/\ Len(attendanceRecords') = Len(attendanceRecords)
           /\ \A i \in 1..Len(attendanceRecords) :
                 IF /\ attendanceRecords[i].employeeId = currentUser
                    /\ attendanceRecords[i].date = todayStr
                 THEN /\ attendanceRecords'[i].id = attendanceRecords[i].id
                      /\ attendanceRecords'[i].employeeId = attendanceRecords[i].employeeId
                      /\ attendanceRecords'[i].date = attendanceRecords[i].date
                      /\ attendanceRecords'[i].checkIn = attendanceRecords[i].checkIn
                      /\ attendanceRecords'[i].status = attendanceRecords[i].status
                      /\ attendanceRecords'[i].checkOut = now
                 ELSE attendanceRecords'[i] = attendanceRecords[i])]_vars

(* A check-in before 10:00 has been checked out at or after 10:00 and the
   record is still Present. *)
C13_Witness ==
    /\ todayRecord # NoRecord
    /\ todayRecord.checkOut = now
    /\ todayRecord.checkIn # Null
    /\ todayRecord.checkIn < now
    /\ (todayRecord.checkIn + tz) % DayLen < 10 * Hour
    /\ (now + tz) % DayLen >= 10 * Hour
    /\ todayRecord.status = PRESENT

(* C14: once today's record has its checkOut set, no check-in or check-out
   changes that record: a step after which the record is no longer in the
   local set as it was is a manual save or a delete. *)
C14_CheckedOutIsTerminal ==
    [][\A i \in 1..Len(attendanceRecords) :
        (/\ attendanceRecords[i].employeeId = currentUser
         /\ attendanceRecords[i].date = todayStr
         /\ attendanceRecords[i].checkOut # Null
         /\ \A j \in 1..Len(attendanceRecords') :
               attendanceRecords'[j] # attendanceRecords[i])
        => (/\ SaveEdit \/ Delete
            /\ ~CheckIn
            /\ ~CheckOut)]_vars

(* A check-in has been asked for after today's check-out, and refused; the
   record shows the check-out. *)
C14_Witness ==
    /\ outcome = "checkInRefused"
    /\ todayRecord # NoRecord
    /\ todayRecord.checkOut # Null
    /\ todayRecord.checkOut <= now

(* C15: every record of the local set has id equal to its employeeId joined
   with its date, after any check-in, check-out, manual entry or manual
   edit. *)
C15_IdIsEmployeeAndDate ==
    \A i \in 1..Len(attendanceRecords) :
        attendanceRecords[i].id =
            <<attendanceRecords[i].employeeId, attendanceRecords[i].date>>

(* A record created by manual entry has been edited since: the edit's upsert
   is the second call, and the record is not one a check-in builds. *)
C15_Witness ==
    /\ calls = 2
    /\ Len(attendanceRecords) = 1
    /\ attendanceRecords[1].date # todayStr
    /\ attendanceRecords[1].checkOut # Null
    /\ Len(pending) = 1
    /\ pending[1].kind = "upsert"

(* C16: a record is created by manual entry only when its date lies in the
   current or the previous calendar month: a manual new entry dated before
   the first day of the previous month adds no record to the local set and
   sends no upsert. *)
C16_ManualEntryWindow ==
    [][\A editForm \in ManualEntryForms :
        (/\ handleSaveEdit(editForm)
         /\ isCreating
         /\ editForm.date # Null
         /\ monthOf(editForm.date) < monthOf(todayStr) - 1)
        => (/\ attendanceRecords' = attendanceRecords
            /\ pending' = pending)]_vars

(* C17: applying an optimistic upsert replaces the record with the same id
   when the local set has one and appends the record otherwise; every record
   with a different id is unchanged and the set grows by at most one. *)
C17_OptimisticUpsert ==
    [][\A updatedRecord \in AppRecords :
        handleUpdateRecord(updatedRecord)
        => LET prev == attendanceRecords
               next == attendanceRecords'
           IN  /\ Len(next) <= Len(prev) + 1
               /\ \A i \in 1..Len(prev) :
                     next[i] = (IF prev[i].id = updatedRecord.id
                                THEN updatedRecord ELSE prev[i])
               /\ IF \E i \in 1..Len(prev) : prev[i].id = updatedRecord.id
                  THEN Len(next) = Len(prev)
                  ELSE /\ Len(next) = Len(prev) + 1
                       /\ next[Len(next)] = updatedRecord]_vars

(* A record of a loaded set of two has been replaced in place by an upsert
   that is still in flight; the other record is as it was loaded. *)
C17_Witness ==
    /\ calls = 1
    /\ Len(attendanceRecords) = 2
    /\ pending = <<UpsertCall(attendanceRecords[1])>>
    /\ attendanceRecords[1] \notin remote
    /\ \E x \in remote : x.id = attendanceRecords[1].id
    /\ attendanceRecords[2] \in remote

(* C18: the local set is updated before the persistence call completes: the
   step that sends an upsert leaves the record in the local set, and the
   remote store receives a record only from an upsert sent in an earlier
   step. *)
C18_LocalBeforeRemote ==
    [][/\ (calls' = calls + 1 /\ pending'[Len(pending')].kind = "upsert")
          => \E i \in 1..Len(attendanceRecords') :
                attendanceRecords'[i] = pending'[Len(pending')].rec
       /\ \A r \in remote' \ remote :
             \E i \in 1..Len(pending) :
                pending[i].kind = "upsert" /\ pending[i].rec = r]_vars

(* A new record is in the local set while its upsert is in flight and the
   remote store has no row of its id. *)
C18_Witness ==
    /\ Len(pending) = 1
    /\ pending[1].kind = "upsert"
    /\ \E i \in 1..Len(attendanceRecords) : attendanceRecords[i] = pending[1].rec
    /\ \A x \in remote : x.id # pending[1].id

(* C19: when the upsert fails (error result or thrown exception) the local
   set is left as the optimistic update made it, one alert is raised, the
   remote store is unchanged and no further call is sent. *)
C19_UpsertFailureKeepsLocal ==
    [][(UpsertSettles /\ outcome' # "none")
       => (/\ attendanceRecords' = attendanceRecords
           /\ remote' = remote
           /\ calls' = calls
           /\ Len(pending') = Len(pending) - 1
           /\ \A i \in 1..Len(pending') : \E j \in 1..Len(pending) : pending'[i] = pending[j]
           /\ outcome' \in {"saveFailed", "saveUnexpected"})]_vars

(* The one upsert sent has failed: the record is in the local set and not in
   the remote store, and nothing is in flight. *)
C19_Witness ==
    /\ outcome \in {"saveFailed", "saveUnexpected"}
    /\ calls = 1
    /\ pending = <<>>
    /\ \E i \in 1..Len(attendanceRecords) : attendanceRecords[i] \notin remote

(* C20: delete removes the record with the given id from the local set in
   the step that sends the remote delete, and leaves every other record
   unchanged; when the remote delete fails the local set stays as it is, one
   alert is raised and no further call is sent. *)
C20_OptimisticDelete ==
    [][/\ \A recordId \in AppIds :
            handleDeleteRecord(recordId)
            => (/\ \A i \in 1..Len(attendanceRecords') :
                      attendanceRecords'[i].id # recordId
                /\ \A i \in 1..Len(attendanceRecords) :
                      attendanceRecords[i].id # recordId
                      => \E j \in 1..Len(attendanceRecords') :
                            attendanceRecords'[j] = attendanceRecords[i]
                /\ \A j \in 1..Len(attendanceRecords') :
                      \E i \in 1..Len(attendanceRecords) :
                         attendanceRecords[i] = attendanceRecords'[j]
                /\ remote' = remote
                /\ pending'[Len(pending')].kind = "delete")
       /\ (DeleteSettles /\ outcome' # "none")
            => (/\ attendanceRecords' = attendanceRecords
                /\ remote' = remote
                /\ calls' = calls
                /\ Len(pending') = Len(pending) - 1
                /\ outcome' = "deleteFailed")]_vars

(* The delete of one of two loaded records has failed: the record is gone
   from the local set and still in the remote store, the other record is in
   both. *)
C20_Witness ==
    /\ outcome = "deleteFailed"
    /\ calls = 1
    /\ pending = <<>>
    /\ Cardinality(remote) = 2
    /\ Len(attendanceRecords) = 1
    /\ attendanceRecords[1] \in remote

(* C21: once checkSession has found a session and started fetchProfile, the
   loading state eventually becomes false, whether the fetch succeeds, keeps
   failing or throws; every await is taken to settle and every timer to
   fire. *)
C21_LoadingEnds ==
    (loading /\ \E op \in loads : op.kind = "profile") ~> ~loading

(* The retries are exhausted: the app has left the loading state without a
   user, under a session. *)
C21_Witness ==
    /\ outcome = "profileFailed"
    /\ ~loading
    /\ session
    /\ user = NoUser

(* C22: one profile load makes at most 4 fetch attempts: a load starts with
   3 retries left, a retry is scheduled only by a failed attempt that has
   retries left and with the counter decreased by one, the timer's attempt
   carries the timer's counter, and a successful attempt schedules nothing. *)
C22_BoundedRetries ==
    [][\A op \in loads' \ loads :
        /\ op.retries \in 0..3
        /\ op.kind = "timer"
           => (/\ user' = user
               /\ \E p \in loads \ loads' :
                     /\ p.kind = "profile"
                     /\ p.by = op.by
                     /\ p.retries > 0
                     /\ op.retries = p.retries - 1)
        /\ op.kind = "profile"
           => \/ /\ op.retries = 3
                 /\ \A t \in loads : t.by = op.by => t.kind = "getSession"
              \/ \E t \in loads \ loads' :
                    /\ t.kind = "timer"
                    /\ t.by = op.by
                    /\ t.retries = op.retries
        /\ op.kind = "appData"
           => \A t \in loads' : t.by = op.by => t.kind \notin {"timer", "profile"}]_vars

(* The fourth attempt of the load started at mount is in flight. *)
C22_Witness ==
    \E op \in loads : op.kind = "profile" /\ op.by = "mount" /\ op.retries = 0

(* first day of the month of the reference date *)
ReferenceMonthStart == (((now + tz) \div DayLen) \div MonthLen) * MonthLen

(* The records of the local set dated in the period the manager selected *)
RecordsOfPeriod ==
    LET start == IF selectedMonth = "current" THEN ReferenceMonthStart
                 ELSE ReferenceMonthStart - MonthLen
    IN  SelectSeq(attendanceRecords,
                  LAMBDA r : start <= r.date /\ r.date <= start + MonthLen - 1)

(* The records of a sequence that count as attended *)
AttendedIn(recs) == {i \in 1..Len(recs) : recs[i].status \in {PRESENT, LATE}}

(* C23: for the record set of any period, the attendanceRate that
   calculateStats returns lies in 0..100, and it is 100 when the set is not
   empty and every record of it is Present or Late. *)
C23_AttendanceRateRange ==
    LET rate == globalStats.attendanceRate
    IN  /\ rate \in 0..100
        /\ (/\ RecordsOfPeriod # <<>>
            /\ Cardinality(AttendedIn(RecordsOfPeriod)) = Len(RecordsOfPeriod))
           => rate = 100

(* C23 witness: a period of several records, Present and Late ones and no
   other, shown after the manager changed the period, with a rate of 100. *)
C23_Witness ==
    /\ selectedMonth = "previous"
    /\ Len(RecordsOfPeriod) > 2
    /\ \A i \in 1..Len(RecordsOfPeriod) : RecordsOfPeriod[i].status \in {PRESENT, LATE}
    /\ \E i \in 1..Len(RecordsOfPeriod) : RecordsOfPeriod[i].status = LATE
    /\ globalStats.attendanceRate = 100

(* minutes of an `${h}h ${m}m` *)
MinutesOf(duration) == 60 * duration[1] + duration[2]

(* C24: calculateStats returns attendanceRate = round(100 * (present + late)
   / count) and average hours = total hours / count (shown to the minute)
   for a set that is not empty, and zero hours, zero average and a rate of 0
   for the empty set; records that are Absent, On Leave or Half Day count in
   the denominator only. *)
C24_StatsFormulas ==
    LET recs == RecordsOfPeriod
        stats == globalStats
        count == Len(recs)
        attended == Cardinality(AttendedIn(recs))
        total == totalHoursDecimal(recs)
        average == MinutesOf(stats.avgHours)
    IN  IF count = 0
        THEN /\ stats.totalHours = <<0, 0>>
             /\ stats.avgHours = <<0, 0>>
             /\ stats.attendanceRate = 0
        ELSE /\ stats.attendanceRate = (200 * attended + count) \div (2 * count)
             /\ stats.present + stats.late = attended
             /\ 2 * (100 * count * average - 60 * total) <= 100 * count
             /\ 2 * (60 * total - 100 * count * average) < 100 * count

(* day of the month and month of a date *)
DayOf(d) == <<(d % MonthLen) + 1, d \div MonthLen>>

(* The dates of the records of a sequence *)
DatesIn(recs) == {recs[i].date : i \in 1..Len(recs)}

(* C25: the chart series has one point for each distinct date of the
   period's records, with the hours of that date summed and its Present and
   Late records counted, in chronological order; when there are more than 14
   distinct dates it holds the 14 most recent of them. *)
C25_ChartSeries ==
    LET recs == RecordsOfPeriod
        chart == chartData
        dates == DatesIn(recs)
        shown == {d \in dates : Cardinality({e \in dates : e > d}) < ChartDays}
    IN  /\ Len(chart) = Cardinality(shown)
        /\ \A d \in shown : \E p \in 1..Len(chart) :
              /\ chart[p].date = DayOf(d)
              /\ chart[p].hours = totalHoursDecimal(SelectSeq(recs, LAMBDA r : r.date = d))
              /\ chart[p].present =
                    Cardinality(AttendedIn(SelectSeq(recs, LAMBDA r : r.date = d)))
        /\ \A p, q \in 1..Len(chart) :
              p < q => \/ chart[p].date[2] < chart[q].date[2]
                       \/ /\ chart[p].date[2] = chart[q].date[2]
                          /\ chart[p].date[1] < chart[q].date[1]

(* C26: a record is in the 'current' period exactly when its date is in the
   calendar month of the reference date, in the 'previous' period exactly
   when its date lies from the first to the last day of the month before,
   both included, and no record is in both periods. *)
C26_PeriodFilter ==
    LET current == Range(periodRecords(attendanceRecords, "current"))
        previous == Range(periodRecords(attendanceRecords, "previous"))
    IN  /\ current \cup previous \subseteq Range(attendanceRecords)
        /\ \A i \in 1..Len(attendanceRecords) :
              LET r == attendanceRecords[i]
              IN  /\ r \in current
                       <=> /\ ReferenceMonthStart <= r.date
                           /\ r.date <= ReferenceMonthStart + MonthLen - 1
                  /\ r \in previous
                       <=> /\ ReferenceMonthStart - MonthLen <= r.date
                           /\ r.date <= ReferenceMonthStart - 1
                  /\ ~(r \in current /\ r \in previous)

(* C26 witness: the manager looks at the previous period of a set with a
   record two months back, records on the first and on the last day of the
   previous month, and a record of the current month. *)
C26_Witness ==
    /\ selectedMonth = "previous"
    /\ {ReferenceMonthStart - MonthLen - 1, ReferenceMonthStart - MonthLen,
        ReferenceMonthStart - 1, ReferenceMonthStart} \subseteq DatesIn(attendanceRecords)
    /\ DatesIn(managerFilteredRecords) =
          (ReferenceMonthStart - MonthLen) .. (ReferenceMonthStart - 1)

(* The records of a sequence that belong to a colleague of the employee *)
OfColleagues(recs) == SelectSeq(recs, LAMBDA r : r.employeeId # currentUser)

(* C27: no step of the employee's dashboard (check-in, check-out, manual
   save, delete, and the completion of their calls) changes a record of
   another employee, in the local set or in the table, and every call it
   sends is for a record of the employee; no step of the manager's dashboard
   changes the local set, sends a call or changes the table. *)
C27_OnlyOwnRecords ==
    [][/\ OfColleagues(attendanceRecords') = OfColleagues(attendanceRecords)
       /\ {r \in remote' : r.employeeId # currentUser}
             = {r \in remote : r.employeeId # currentUser}
       /\ \A k \in 1..Len(pending') : pending'[k].id[1] = currentUser
       /\ user = managerUser
             => /\ attendanceRecords' = attendanceRecords
                /\ pending' = pending
                /\ remote' = remote]_vars

(* C27 witness: the employee has checked in and out on a day for which the
   local set holds a colleague's record, and both calls were sent. *)
C27_Witness ==
    /\ user = currentUser
    /\ calls = MaxCalls
    /\ \E i, j \in 1..Len(attendanceRecords) :
          /\ attendanceRecords[i].employeeId = currentUser
          /\ attendanceRecords[i].checkOut # Null
          /\ attendanceRecords[j].employeeId # currentUser
          /\ attendanceRecords[j].date = attendanceRecords[i].date
          /\ attendanceRecords[j].checkOut = Null

(* C28: when every call succeeds, once no upsert or delete is in flight the
   table holds for each record id what the local set holds for it, whatever
   the order in which the calls completed. *)
C28_RemoteEqualsLocalWhenSettled ==
    pending = <<>> => remote = Range(attendanceRecords)

(* C29: a record applied optimistically to the local set (its upsert in
   flight or persisted) is still in the local set, as it is, after a
   fetchAppData completes. *)
C29_FetchKeepsOptimisticRecord ==
    [][AppDataSettles
       => \A i \in 1..Len(attendanceRecords) :
             (\/ attendanceRecords[i] \in remote
              \/ \E k \in 1..Len(pending) : pending[k] = UpsertCall(attendanceRecords[i]))
             => \E j \in 1..Len(attendanceRecords') :
                   attendanceRecords'[j] = attendanceRecords[i]]_vars

(* C30: after a sign-out has set the user to null and cleared the local set,
   no step sets the user or refills the set while there is no session. *)
C30_SignedOutStaysCleared ==
    [][(/\ ~session
        /\ ~session'
        /\ user = NoUser
        /\ attendanceRecords = <<>>)
       => (/\ user' = NoUser
           /\ attendanceRecords' = <<>>)]_vars

====
